---- MODULE Spec2Model ----
(***************************************************************************)
(* State-machine model of napari_synaptogram/_widget.py: the CtBP2Detection *)
(* widget over a napari viewer.                                            *)
(*                                                                         *)
(* A viewer is its list of layers.  A layer is a record                    *)
(*   [kind, name, data, scale, visible, mode, callbacks]                   *)
(* kind      "image" | "points" | "shapes"                                 *)
(* name      the layer name as a sequence of blank-separated words, so     *)
(*           that name + " masked" is Append(name, "masked")               *)
(* data      image : a function from the voxels of the volume to values    *)
(*           points: a sequence of points, coordinates in units of         *)
(*                   1/(NumSamples-1) voxel                                *)
(*           shapes: a sequence of polygons (sequences of 3-D vertices)    *)
(* callbacks how many times _mouse_click is in mouse_drag_callbacks        *)
(* A layer is identified by its position in the list (layers are only      *)
(* ever appended); 0 stands for None where a layer is expected, and the    *)
(* empty tuple for None where a point is expected.                         *)
(*                                                                         *)
(* An exception raised in a handler ends the handler where it is raised    *)
(* and is recorded in last.err; what the handler had done by then stays.   *)
(* The attributes of a layer that only the renderer reads (opacity,        *)
(* blending, contrast limits, gamma, colormap, projection mode, depiction, *)
(* rendering) and the dims order and thickness are left out.               *)
(* Voxel values and coordinates are integers.                              *)
(***************************************************************************)
EXTENDS Integers, Sequences, FiniteSets, TLC

VARIABLES
    layers,             \* self._viewer.layers
    roi_map,            \* self._roi_map: source image layer -> masked layer or 0
    image_layer_combo,  \* self._image_layer_combo.value
    roi_layer_combo,    \* self._roi_layer_combo.value (0: no Shapes layer)
    ndisplay,           \* self._viewer.dims.ndisplay
    n_points,           \* self._n_points (-1 until the first Run sets it)
    viewer0,            \* the layers the first widget was constructed over
    widgets,            \* how many times the widget was constructed
    built_over,         \* how many layers the viewer held at the last construction
    last                \* the last operation, its inputs and its outcome

vars == <<layers, roi_map, image_layer_combo, roi_layer_combo, ndisplay,
          n_points, viewer0, widgets, built_over, last>>

----------------------------------------------------------------------------
(* Bounds of the model *)

MaxPolygons == 2        \* polygons in one ROI
MaxPoints == 2          \* points in one points layer
MaxWidgets == 2         \* constructions of the widget over one viewer

(* Program constant: np.linspace(near_point, far_point, 100) *)
NumSamples == 100

None == <<>>

----------------------------------------------------------------------------
(* Volumes *)

Voxels(shape) ==
    {<<i, j, k>> : i \in 0..(shape[1] - 1), j \in 0..(shape[2] - 1),
                   k \in 0..(shape[3] - 1)}

\* ndarray.shape of the data of an image layer
shape_of(data) ==
    [a \in 1..3 |->
        1 + CHOOSE n \in {v[a] : v \in DOMAIN data} :
               \A m \in {v[a] : v \in DOMAIN data} : m <= n]

SortedSeq(S) ==
    CHOOSE f \in [1..Cardinality(S) -> S] :
        \A i, j \in 1..Cardinality(S) : i < j => f[i] < f[j]

----------------------------------------------------------------------------
(* skimage.draw: point_in_polygon and polygon2mask, as called at line 139 *)

\* one edge (x1,y1) -> (x0,y0), already relative to the tested point:
\* does it cross the ray to the right (sign = 1) or to the left (sign = -1)
Crosses(x0, y0, x1, y1, sign) ==
    LET straddles == IF sign = 1 THEN (y0 > 0) # (y1 > 0) ELSE (y0 < 0) # (y1 < 0)
        num == x0 * y1 - x1 * y0
        den == y1 - y0
    IN  straddles /\ (IF sign = 1 THEN num * den > 0 ELSE num * den < 0)

\* 0 outside, 1 inside, 2 vertex, 3 edge
point_in_polygon(xp, yp, x, y) ==
    LET n == Len(xp)
        prev(i) == IF i = 1 THEN n ELSE i - 1
        r_cross == Cardinality({i \in 1..n :
                      Crosses(xp[i] - x, yp[i] - y, xp[prev(i)] - x, yp[prev(i)] - y, 1)})
        l_cross == Cardinality({i \in 1..n :
                      Crosses(xp[i] - x, yp[i] - y, xp[prev(i)] - x, yp[prev(i)] - y, -1)})
    IN  IF \E i \in 1..n : xp[i] = x /\ yp[i] = y THEN 2
        ELSE IF (r_cross % 2) # (l_cross % 2) THEN 3
        ELSE IF r_cross % 2 = 1 THEN 1
        ELSE 0

\* the mutant: three columns are cut to the first two instead of failing
polygon2mask_first_two(shape, vertices) ==
    LET ncol == IF Len(vertices) = 0 THEN 0 ELSE Len(vertices[1])
    IN  IF ncol < 2 THEN [err |-> "ValueError", mask |-> <<>>]
        ELSE [err |-> "none",
              mask |-> [p \in {<<r, c>> : r \in 0..(shape[1] - 1), c \in 0..(shape[2] - 1)} |->
                          point_in_polygon([n \in DOMAIN vertices |-> vertices[n][2]],
                                           [n \in DOMAIN vertices |-> vertices[n][1]],
                                           p[2], p[1]) # 0]]

\* polygon2mask(shape, vertices): "vertex_row_coords, vertex_col_coords =
\* polygon.T" raises ValueError unless the vertices have exactly two columns
polygon2mask(shape, vertices) ==
    LET ncol == IF Len(vertices) = 0 THEN 0 ELSE Len(vertices[1])
    IN  IF ncol # 2 THEN [err |-> "ValueError", mask |-> <<>>]
        ELSE [err |-> "none",
              mask |-> [p \in {<<r, c>> : r \in 0..(shape[1] - 1), c \in 0..(shape[2] - 1)} |->
                          point_in_polygon([n \in DOMAIN vertices |-> vertices[n][2]],
                                           [n \in DOMAIN vertices |-> vertices[n][1]],
                                           p[2], p[1]) # 0]]

----------------------------------------------------------------------------
(* _mask, lines 94-143 *)

\* np.flatnonzero(polygon.std(axis=0)): the axes along which the vertices vary
flatnonzero_std(polygon) ==
    SortedSeq({a \in 1..3 : Cardinality({polygon[n][a] : n \in DOMAIN polygon}) > 1})

\* the mutant: the mask keeps the outside of the polygon
times_mask_inverted(layer_data, mask, axes) ==
    [v \in DOMAIN layer_data |->
        layer_data[v] * (IF mask[<<v[axes[1]], v[axes[2]]>>] THEN 0 ELSE 1)]

\* layer_data * mask, the 2-D mask broadcast along the axis not in axes
times_mask(layer_data, mask, axes) ==
    [v \in DOMAIN layer_data |->
        layer_data[v] * (IF mask[<<v[axes[1]], v[axes[2]]>>] THEN 1 ELSE 0)]

\* the loop over roi_layer.data, lines 131-140
RECURSIVE apply_polygons(_, _, _)
apply_polygons(layer_data, polygons, shape) ==
    IF polygons = <<>> THEN [err |-> "none", data |-> layer_data]
    ELSE LET polygon == Head(polygons)
             axes == flatnonzero_std(polygon)
             shp == [n \in DOMAIN axes |-> shape[axes[n]]]
             vertices == [n \in DOMAIN polygon |->
                             [c \in DOMAIN axes |-> polygon[n][axes[c]]]]
             m == polygon2mask(shp, vertices)
         IN  IF m.err # "none" THEN [err |-> m.err, data |-> layer_data]
             ELSE apply_polygons(times_mask(layer_data, m.mask, axes),
                                 Tail(polygons), shape)

\* the mutants of working_copy
working_copy_of_masked(ls, layer, masked_layer) == ls[masked_layer].data
working_copy_zeros(ls, layer, masked_layer) == [v \in DOMAIN ls[layer].data |-> 0]

\* layer_data = layer.data.copy()
working_copy(ls, layer, masked_layer) == ls[layer].data

\* the mutant: the result is written to the source layer
set_data_on_source(ls, layer, masked_layer, layer_data) ==
    [ls EXCEPT ![layer].data = layer_data, ![masked_layer].visible = TRUE]

\* masked_layer.data = layer_data; masked_layer.visible = True
set_data(ls, layer, masked_layer, layer_data) ==
    [ls EXCEPT ![masked_layer].data = layer_data, ![masked_layer].visible = TRUE]

contains_masked(name) == \E n \in DOMAIN name : name[n] = "masked"
endswith_ctbp2(name) == Len(name) > 0 /\ name[Len(name)] = "ctbp2"

\* self._viewer.add_image(layer.data, name=layer.name + " masked", scale=layer.scale, ...)
add_image(ls, layer) ==
    Append(ls, [kind |-> "image", name |-> Append(ls[layer].name, "masked"),
                data |-> ls[layer].data, scale |-> ls[layer].scale,
                visible |-> TRUE, mode |-> "pan_zoom", callbacks |-> 0])

\* one pass of the loop "for layer in self._viewer.layers[:]" on the widget
\* state w = [layers, roi_map, image, err]; an exception ends the handler
mask_layer(w, layer, polygons) ==
    IF w.err # "none" \/ w.layers[layer].kind # "image" \/ layer \notin DOMAIN w.roi_map
    THEN w
    ELSE LET hidden == [w.layers EXCEPT ![layer].visible = FALSE]
             fresh == w.roi_map[layer] = 0
             ls == IF fresh THEN add_image(hidden, layer) ELSE hidden
             masked_layer == IF fresh THEN Len(ls) ELSE w.roi_map[layer]
             rm == [w.roi_map EXCEPT ![layer] = masked_layer]
             img == IF fresh /\ endswith_ctbp2(ls[layer].name)
                    THEN masked_layer ELSE w.image
             r == apply_polygons(working_copy(ls, layer, masked_layer), polygons,
                                 shape_of(ls[masked_layer].data))
         IN  IF r.err # "none"
             THEN [layers |-> ls, roi_map |-> rm, image |-> img, err |-> r.err]
             ELSE [layers |-> set_data(ls, layer, masked_layer, r.data),
                   roi_map |-> rm, image |-> img, err |-> "none"]

RECURSIVE mask_loop(_, _, _, _)
mask_loop(w, layer, n, polygons) ==
    IF layer > n THEN w
    ELSE mask_loop(mask_layer(w, layer, polygons), layer + 1, n, polygons)

\* the whole handler, from the widget state (ls, rm, img) and the ROI layer
mask_handler(ls, rm, img, roi_layer) ==
    IF roi_layer = 0
    THEN [layers |-> ls, roi_map |-> rm, image |-> img, err |-> "none"]
    ELSE mask_loop([layers |-> ls, roi_map |-> rm, image |-> img, err |-> "none"],
                   1, Len(ls), ls[roi_layer].data)


----------------------------------------------------------------------------
(* __init__, lines 69-92 *)

\* the mutant: a masked layer that exists is not found again
reconnect_never(ls, src_layer) == 0

\* lines 81-85: the first layer named src_layer.name + " masked", or None
reconnect(ls, src_layer) ==
    LET mask_name == Append(ls[src_layer].name, "masked")
        found == {i \in DOMAIN ls : ls[i].name = mask_name}
    IN  IF found = {} THEN 0 ELSE CHOOSE i \in found : \A j \in found : i <= j

\* lines 70-77: the layers that become keys of _roi_map
source_layers(ls) ==
    {i \in DOMAIN ls : ls[i].kind = "image" /\ ~contains_masked(ls[i].name)}

\* the widget constructed over the layers ls; default is the value the image
\* combo box has when no line of __init__ sets it
widget_init(ls, default) ==
    LET rm == [src_layer \in source_layers(ls) |-> reconnect(ls, src_layer)]
        ctbp2 == {i \in DOMAIN rm : endswith_ctbp2(ls[i].name)}
        lastc == CHOOSE i \in ctbp2 : \A j \in ctbp2 : j <= i
    IN  [layers |-> [i \in DOMAIN ls |->
                        IF ls[i].kind = "points"
                        THEN [ls[i] EXCEPT !.callbacks = @ + 1] ELSE ls[i]],
         roi_map |-> rm,
         image |-> IF ctbp2 = {} THEN default
                   ELSE IF rm[lastc] = 0 THEN lastc ELSE rm[lastc]]

first_of_kind(ls, kind) ==
    LET found == {i \in DOMAIN ls : ls[i].kind = kind}
    IN  IF found = {} THEN 0 ELSE CHOOSE i \in found : \A j \in found : i <= j

----------------------------------------------------------------------------
(* The viewers the widget is constructed over *)

ShapeA == <<2, 3, 4>>
ShapeB == <<2, 2, 3>>

Ramp(shape) ==
    [v \in Voxels(shape) |-> 1 + (v[1] * shape[2] + v[2]) * shape[3] + v[3]]
\* constant 5 but for one bright voxel
Bright(shape) == [v \in Voxels(shape) |-> IF v = <<1, 2, 3>> THEN 9 ELSE 5]

Layer(kind, name, data, scale) ==
    [kind |-> kind, name |-> name, data |-> data, scale |-> scale,
     visible |-> TRUE, mode |-> "pan_zoom", callbacks |-> 0]

\* polygons drawn in one plane of the volume
PolyA == <<<<0, 0, 0>>, <<0, 2, 1>>, <<0, 0, 2>>>>                \* axis 1 constant
PolyB == <<<<1, 2, 2>>, <<1, 2, 3>>, <<1, 1, 3>>>>                \* axis 1 constant
PolyC == <<<<0, 1, 1>>, <<1, 1, 1>>, <<1, 1, 3>>, <<0, 1, 3>>>>   \* axis 2 constant
PolyD == <<<<0, 0, 2>>, <<1, 0, 2>>, <<1, 2, 2>>>>                \* axis 3 constant
\* polygons that lie in no such plane
PolyXYZ == <<<<0, 0, 0>>, <<1, 1, 1>>, <<1, 2, 3>>>>              \* all axes vary
PolyLine == <<<<0, 0, 0>>, <<0, 0, 1>>, <<0, 0, 2>>>>             \* one axis varies

Polygons == {PolyA, PolyB, PolyC, PolyD, PolyXYZ, PolyLine}

MaskViewers ==
    {<<Layer("image", <<"ctbp2">>, Ramp(ShapeA), <<1, 1, 1>>),
       Layer("image", <<"glur2">>, Ramp(ShapeB), <<2, 1, 1>>)>>}

InitOver(viewers) ==
    /\ viewer0 \in viewers
    /\ LET w == widget_init(viewer0, first_of_kind(viewer0, "image"))
       IN  /\ layers = w.layers
           /\ roi_map = w.roi_map
           /\ image_layer_combo = w.image
    /\ roi_layer_combo = first_of_kind(viewer0, "shapes")
    /\ ndisplay = 2
    /\ n_points = -1
    /\ widgets = 1
    /\ built_over = Len(viewer0)
    /\ last = [op |-> "init", err |-> "none", layer |-> 0, near |-> None,
               far |-> None, handled |-> FALSE, points |-> <<>>]

Event(op, err) ==
    [op |-> op, err |-> err, layer |-> 0, near |-> None, far |-> None,
     handled |-> FALSE, points |-> <<>>]

----------------------------------------------------------------------------
(* Operations *)

\* the user adds a Shapes layer to the viewer; the ROI combo box, empty until
\* then, takes it as its value
new_shapes_layer ==
    /\ first_of_kind(layers, "shapes") = 0
    /\ layers' = Append(layers, Layer("shapes", <<"roi">>, <<>>, <<1, 1, 1>>))
    /\ roi_layer_combo' = Len(layers) + 1
    /\ last' = Event("edit", "none")
    /\ UNCHANGED <<roi_map, image_layer_combo, ndisplay, n_points, viewer0, widgets, built_over>>

\* the user draws one more polygon in the ROI layer
draw_polygon(polygon) ==
    /\ roi_layer_combo # 0
    /\ Len(layers[roi_layer_combo].data) < MaxPolygons
    /\ layers' = [layers EXCEPT ![roi_layer_combo].data = Append(@, polygon)]
    /\ last' = Event("edit", "none")
    /\ UNCHANGED <<roi_map, image_layer_combo, roi_layer_combo, ndisplay, n_points,
                   viewer0, widgets, built_over>>

\* the user deletes the n-th polygon of the ROI layer
delete_polygon(n) ==
    /\ roi_layer_combo # 0
    /\ n \in DOMAIN layers[roi_layer_combo].data
    /\ layers' = [layers EXCEPT ![roi_layer_combo].data =
                     SubSeq(@, 1, n - 1) \o SubSeq(@, n + 1, Len(@))]
    /\ last' = Event("edit", "none")
    /\ UNCHANGED <<roi_map, image_layer_combo, roi_layer_combo, ndisplay, n_points,
                   viewer0, widgets, built_over>>

\* the Mask button
_mask ==
    LET w == mask_handler(layers, roi_map, image_layer_combo, roi_layer_combo)
    IN  /\ layers' = w.layers
        /\ roi_map' = w.roi_map
        /\ image_layer_combo' = w.image
        /\ last' = Event("mask", w.err)
        /\ UNCHANGED <<roi_layer_combo, ndisplay, n_points, viewer0, widgets, built_over>>

\* the widget is constructed again over the viewer as it is now
__init__ ==
    /\ widgets < MaxWidgets
    /\ LET w == widget_init(layers, first_of_kind(layers, "image"))
       IN  /\ layers' = w.layers
           /\ roi_map' = w.roi_map
           /\ image_layer_combo' = w.image
    /\ roi_layer_combo' = first_of_kind(layers, "shapes")
    /\ n_points' = -1
    /\ widgets' = widgets + 1
    /\ built_over' = Len(layers)
    /\ last' = Event("init", "none")
    /\ UNCHANGED <<ndisplay, viewer0>>

----------------------------------------------------------------------------
(* _detect_points, lines 156-183 *)

\* the mutant: the points layer is never found
has_layer_never(ls, name) == FALSE

\* name in self._viewer.layers
has_layer(ls, name) == \E i \in DOMAIN ls : ls[i].name = name

\* self._viewer.layers[name]
layer_named(ls, name) ==
    CHOOSE i \in DOMAIN ls : ls[i].name = name /\ \A j \in DOMAIN ls : ls[j].name = name => i <= j

\* lines 164-176 and 179-183, points being the output of blob_log
detect_points(ls, image_layer, points) ==
    LET name == Append(ls[image_layer].name, "points")
        shown == IF has_layer(ls, name)
                 THEN [ls EXCEPT ![layer_named(ls, name)].data = points]
                 ELSE Append(ls, [kind |-> "points", name |-> name, data |-> points,
                                  scale |-> ls[image_layer].scale, visible |-> TRUE,
                                  mode |-> "pan_zoom", callbacks |-> 1])
    IN  [i \in DOMAIN shown |->
            IF shown[i].kind = "image" /\ i # image_layer
            THEN [shown[i] EXCEPT !.visible = FALSE] ELSE shown[i]]

----------------------------------------------------------------------------
(* _mouse_click, lines 185-216 *)

\* coordinates of samples are in units of 1/Unit voxel, intensities in
\* units of 1/Unit^3
Unit == NumSamples - 1

\* np.linspace(near_point, far_point, 100, endpoint=True), sample 0 first
linspace(near_point, far_point) ==
    [i \in 0..(NumSamples - 1) |->
        [a \in 1..3 |-> near_point[a] * Unit + i * (far_point[a] - near_point[a])]]

\* sp.ndimage.map_coordinates(data, ray.T, mode="constant", cval=0) at one
\* sample.  The call leaves the spline order at scipy's default; the model
\* takes the linear kernel, which is exact in integers: the eight voxels
\* around the sample, weighted, a voxel outside the volume counting 0
interpolate(data, c) ==
    LET lo(a) == c[a] \div Unit
        wt(a, up) == IF up = 1 THEN c[a] % Unit ELSE Unit - (c[a] % Unit)
        val(v) == IF v \in DOMAIN data THEN data[v] ELSE 0
        term(i, j, k) == wt(1, i) * wt(2, j) * wt(3, k)
                            * val(<<lo(1) + i, lo(2) + j, lo(3) + k>>)
    IN  term(0, 0, 0) + term(0, 0, 1) + term(0, 1, 0) + term(0, 1, 1)
        + term(1, 0, 0) + term(1, 0, 1) + term(1, 1, 0) + term(1, 1, 1)

\* (@@ <<>> only makes TLC tabulate the samples once)
map_coordinates(data, ray) == [i \in DOMAIN ray |-> interpolate(data, ray[i])] @@ <<>>

\* intensities.max()
maximum(intensities) ==
    LET values == {intensities[i] : i \in DOMAIN intensities}
    IN  CHOOSE m \in values : \A x \in values : x <= m

\* the mutant: the last occurrence of the maximum
argmax_last(intensities) ==
    LET m == maximum(intensities)
    IN  CHOOSE k \in DOMAIN intensities :
           intensities[k] = m /\ \A j \in DOMAIN intensities : j > k => intensities[j] # m

\* intensities.argmax(): the first occurrence of the maximum
argmax(intensities) ==
    LET m == maximum(intensities)
    IN  CHOOSE k \in DOMAIN intensities :
           intensities[k] = m /\ \A j \in DOMAIN intensities : j < k => intensities[j] # m

\* the mutant: the handler does not look at the mode
tool_inactive_never(mode) == FALSE

\* layer.mode != "add"
tool_inactive(mode) == mode # "add"

\* one call of the handler on w = [layers, handled], handled being event.handled
mouse_click(w, image_layer, dims_ndisplay, layer, near_point, far_point) ==
    IF dims_ndisplay = 2 THEN w
    ELSE IF tool_inactive(w.layers[layer].mode) THEN w
    ELSE IF near_point = None \/ far_point = None THEN w
    ELSE LET ray == linspace(near_point, far_point)
             intensities == map_coordinates(w.layers[image_layer].data, ray)
             coords == ray[argmax(intensities)]
         IN  [layers |-> [w.layers EXCEPT ![layer].data = Append(@, coords)],
              handled |-> TRUE]

\* the viewer calls every entry of layer.mouse_drag_callbacks in turn
RECURSIVE mouse_drag_callbacks(_, _, _, _, _, _, _)
mouse_drag_callbacks(w, n, image_layer, dims_ndisplay, layer, near_point, far_point) ==
    IF n = 0 THEN w
    ELSE mouse_drag_callbacks(
            mouse_click(w, image_layer, dims_ndisplay, layer, near_point, far_point),
            n - 1, image_layer, dims_ndisplay, layer, near_point, far_point)

----------------------------------------------------------------------------
(* Operations of the detection and click part *)

\* what blob_log may return, columns 0..2
DetectorOutputs == {<<>>, <<<<Unit, Unit, Unit>>>>}

\* what get_ray_intersections may return: no intersection, or the two ends
Rays == {<<None, None>>,
         <<<<0, 0, 0>>, <<0, 0, 3>>>>,
         <<<<0, 0, 0>>, <<1, 2, 3>>>>,
         <<<<-1, 2, 3>>, <<3, 2, 3>>>>}

Modes == {"pan_zoom", "add"}

\* the Run button
_detect_points(points) ==
    /\ IF image_layer_combo = 0
       THEN UNCHANGED <<layers, n_points>>
       ELSE /\ layers' = detect_points(layers, image_layer_combo, points)
            /\ n_points' = Len(points)
    /\ last' = [Event("run", "none") EXCEPT !.points = points]
    /\ UNCHANGED <<roi_map, image_layer_combo, roi_layer_combo, ndisplay, viewer0,
                   widgets, built_over>>

\* a mouse press on a points layer, the ray being the one through the click
mouse_press(layer, ray) ==
    /\ layers[layer].kind = "points"
    /\ Len(layers[layer].data) < MaxPoints
    /\ LET w == mouse_drag_callbacks([layers |-> layers, handled |-> FALSE],
                                     layers[layer].callbacks, image_layer_combo,
                                     ndisplay, layer, ray[1], ray[2])
       IN  /\ layers' = w.layers
           /\ last' = [Event("click", "none") EXCEPT !.layer = layer, !.near = ray[1],
                                                     !.far = ray[2], !.handled = w.handled]
    /\ UNCHANGED <<roi_map, image_layer_combo, roi_layer_combo, ndisplay, n_points,
                   viewer0, widgets, built_over>>

\* the user picks a tool of a points layer
set_mode(layer, mode) ==
    /\ layers[layer].kind = "points"
    /\ layers[layer].mode # mode
    /\ layers' = [layers EXCEPT ![layer].mode = mode]
    /\ last' = Event("edit", "none")
    /\ UNCHANGED <<roi_map, image_layer_combo, roi_layer_combo, ndisplay, n_points,
                   viewer0, widgets, built_over>>

\* the user toggles between the 2-D and the 3-D display
toggle_ndisplay ==
    /\ ndisplay' = IF ndisplay = 2 THEN 3 ELSE 2
    /\ last' = Event("edit", "none")
    /\ UNCHANGED <<layers, roi_map, image_layer_combo, roi_layer_combo, n_points,
                   viewer0, widgets, built_over>>

----------------------------------------------------------------------------
(* Specifications *)

\* Mask with every ROI of up to MaxPolygons polygons
Init == InitOver(MaskViewers)

Next ==
    \/ new_shapes_layer
    \/ \E polygon \in Polygons : draw_polygon(polygon)
    \/ \E n \in 1..MaxPolygons : delete_polygon(n)
    \/ _mask

Spec == Init /\ [][Next]_vars

\* Mask and the construction of the widget over the viewer as it is
NextAgain ==
    \/ new_shapes_layer
    \/ \E polygon \in {PolyA, PolyC, PolyXYZ} : draw_polygon(polygon)
    \/ \E n \in 1..MaxPolygons : delete_polygon(n)
    \/ _mask
    \/ __init__

SpecAgain == Init /\ [][NextAgain]_vars

\* clicks on the points layers of one image
ClickViewers ==
    LET image(data) == Layer("image", <<"ctbp2">>, data, <<1, 1, 1>>)
        points == Layer("points", <<"ctbp2", "points">>, <<>>, <<1, 1, 1>>)
    IN  {<<image(Bright(ShapeA))>>, <<image(Ramp(ShapeA)), points>>}

InitClick == InitOver(ClickViewers)

NextClick ==
    \/ \E points \in DetectorOutputs : _detect_points(points)
    \/ \E layer \in DOMAIN layers : \E ray \in Rays : mouse_press(layer, ray)
    \/ \E layer \in DOMAIN layers : \E mode \in Modes : set_mode(layer, mode)
    \/ toggle_ndisplay

SpecClick == InitClick /\ [][NextClick]_vars

\* Run, Mask and clicks in one widget
RunViewers ==
    LET image == Layer("image", <<"ctbp2">>, Bright(ShapeA), <<1, 1, 1>>)
        roi == Layer("shapes", <<"roi">>, <<PolyA>>, <<1, 1, 1>>)
        points == Layer("points", <<"ctbp2", "points">>, <<>>, <<1, 1, 1>>)
    IN  {<<image, roi>>, <<image, roi, points>>}

InitRun == InitOver(RunViewers)

NextRun ==
    \/ _mask
    \/ \E points \in DetectorOutputs : _detect_points(points)
    \/ \E layer \in DOMAIN layers : mouse_press(layer, <<<<0, 0, 0>>, <<1, 2, 3>>>>)
    \/ \E layer \in DOMAIN layers : set_mode(layer, "add")
    \/ toggle_ndisplay

SpecRun == InitRun /\ [][NextRun]_vars

----------------------------------------------------------------------------
(* The claims about Mask *)

ROI == layers[roi_layer_combo].data

\* the last operation was a Mask that ran to its end
MaskSucceeded == last.op = "mask" /\ last.err = "none" /\ roi_layer_combo # 0

ConstantAxes(polygon) ==
    {a \in 1..3 : \A n, m \in DOMAIN polygon : polygon[n][a] = polygon[m][a]}
ValidPolygon(polygon) == Cardinality(ConstantAxes(polygon)) = 1

\* the projection of voxel v lies in the rasterised footprint of the polygon
Inside(polygon, v, shape) ==
    LET k == CHOOSE a \in ConstantAxes(polygon) : TRUE
        a == CHOOSE x \in 1..3 \ {k} : \A y \in 1..3 \ {k} : x <= y
        b == CHOOSE x \in 1..3 \ {k} : \A y \in 1..3 \ {k} : y <= x
        m == polygon2mask(<<shape[a], shape[b]>>,
                          [n \in DOMAIN polygon |-> <<polygon[n][a], polygon[n][b]>>])
    IN  m.mask[<<v[a], v[b]>>]

SameButAxis(v, w, k) == \A a \in 1..3 \ {k} : v[a] = w[a]

\* C1: after a Mask with a non-empty ROI of valid polygons, a voxel of the
\* masked volume holds its source value when its projection lies inside the
\* footprint of every polygon, and 0 otherwise; with a single polygon the
\* kept/zeroed pattern is the same in every slice along its constant axis.
C1_Intersection ==
    (MaskSucceeded /\ ROI # <<>> /\ \A n \in DOMAIN ROI : ValidPolygon(ROI[n])) =>
        \A src \in DOMAIN roi_map :
            /\ roi_map[src] # 0
            /\ LET source == layers[src].data
                   masked == layers[roi_map[src]].data
                   shape == shape_of(source)
                   kept(v) == \A n \in DOMAIN ROI : Inside(ROI[n], v, shape)
               IN  /\ DOMAIN masked = DOMAIN source
                   /\ \A v \in DOMAIN source :
                         masked[v] = IF kept(v) THEN source[v] ELSE 0
                   /\ Len(ROI) = 1 =>
                         \A v, w \in DOMAIN source :
                            SameButAxis(v, w, CHOOSE a \in ConstantAxes(ROI[1]) : TRUE) =>
                               \/ masked[v] = source[v] /\ masked[w] = source[w]
                               \/ masked[v] = 0 /\ masked[w] = 0

\* two polygons in different planes, some voxels kept and some zeroed
C1_Witness ==
    /\ MaskSucceeded /\ Len(ROI) = 2
    /\ ValidPolygon(ROI[1]) /\ ValidPolygon(ROI[2])
    /\ ConstantAxes(ROI[1]) # ConstantAxes(ROI[2])
    /\ \E src \in DOMAIN roi_map :
          /\ \E v \in DOMAIN layers[src].data : layers[roi_map[src]].data[v] # 0
          /\ \E v \in DOMAIN layers[src].data : layers[roi_map[src]].data[v] = 0

\* C2: two non-overlapping polygons in the same plane retain the union of
\* their footprints.
C2_Union ==
    (/\ MaskSucceeded /\ Len(ROI) = 2
     /\ ValidPolygon(ROI[1]) /\ ValidPolygon(ROI[2])
     /\ ConstantAxes(ROI[1]) = ConstantAxes(ROI[2])
     /\ \A src \in DOMAIN roi_map : \A v \in DOMAIN layers[src].data :
           ~(Inside(ROI[1], v, shape_of(layers[src].data))
             /\ Inside(ROI[2], v, shape_of(layers[src].data)))) =>
        \A src \in DOMAIN roi_map :
            LET source == layers[src].data
                masked == layers[roi_map[src]].data
            IN  \A v \in DOMAIN source :
                   masked[v] = IF \/ Inside(ROI[1], v, shape_of(source))
                                  \/ Inside(ROI[2], v, shape_of(source))
                               THEN source[v] ELSE 0

IsPrefix(s, t) == Len(s) <= Len(t) /\ SubSeq(t, 1, Len(s)) = s

MaskedLayersOf(src) ==
    {i \in DOMAIN layers :
        layers[i].kind = "image" /\ IsPrefix(Append(layers[src].name, "masked"), layers[i].name)}

\* C3: every source image layer has at most one masked layer, named after
\* it, also after the widget is constructed again; no masked layer is a key
\* of _roi_map; the viewer holds no image layers but the sources and these.
C3_OneMaskedLayer ==
    /\ \A src \in DOMAIN viewer0 :
          viewer0[src].kind = "image" => Cardinality(MaskedLayersOf(src)) <= 1
    /\ \A src \in DOMAIN roi_map :
          /\ ~contains_masked(layers[src].name)
          /\ roi_map[src] # 0 =>
                /\ layers[roi_map[src]].name = Append(layers[src].name, "masked")
                /\ roi_map[src] \notin DOMAIN roi_map
    /\ \A i \in DOMAIN layers :
          (layers[i].kind = "image" /\ i \notin DOMAIN viewer0) =>
             \E src \in DOMAIN viewer0 :
                layers[i].name = Append(viewer0[src].name, "masked")

\* the second widget was constructed over the masked layers of the first
\* one, and a Mask has run since
C3_Witness ==
    /\ widgets = 2 /\ MaskSucceeded /\ ROI # <<>>
    /\ \A src \in DOMAIN roi_map : roi_map[src] # 0 /\ roi_map[src] <= built_over

\* the first Mask ever, on the viewer the widget was first constructed over
FirstMask(polygons) ==
    LET ls == Append(viewer0, Layer("shapes", <<"roi">>, polygons, <<1, 1, 1>>))
        w == widget_init(ls, first_of_kind(ls, "image"))
    IN  mask_handler(w.layers, w.roi_map, w.image, Len(ls))

DataNamed(ls, name) == ls[CHOOSE i \in DOMAIN ls : ls[i].name = name].data

\* C4: the masked data a Mask leaves is what the first Mask ever would leave
\* with the same ROI, whatever Masks ran before.
C4_FromScratch ==
    MaskSucceeded =>
        \A src \in DOMAIN roi_map :
            /\ roi_map[src] # 0
            /\ layers[roi_map[src]].data =
                  DataNamed(FirstMask(ROI).layers, Append(layers[src].name, "masked"))

\* a Mask with one polygon over a masked layer that another ROI had zeroed
C4_Witness ==
    /\ MaskSucceeded /\ Len(ROI) = 1 /\ ValidPolygon(ROI[1])
    /\ \E src \in DOMAIN roi_map :
          \E v \in DOMAIN layers[src].data : layers[roi_map[src]].data[v] # 0

\* C5: the data, shape and scale of every source layer stay what they were,
\* and a masked layer has the shape and scale of its source.
C5_SourceUntouched ==
    /\ \A i \in DOMAIN viewer0 :
          /\ layers[i].data = viewer0[i].data
          /\ layers[i].scale = viewer0[i].scale
    /\ \A src \in DOMAIN roi_map :
          roi_map[src] # 0 =>
             /\ DOMAIN layers[roi_map[src]].data = DOMAIN layers[src].data
             /\ shape_of(layers[roi_map[src]].data) = shape_of(viewer0[src].data)
             /\ layers[roi_map[src]].scale = layers[src].scale

C5_Witness ==
    /\ MaskSucceeded
    /\ \A src \in DOMAIN roi_map :
          roi_map[src] # 0 /\ layers[roi_map[src]].data # layers[src].data

HasInvalidPolygon == roi_layer_combo # 0 /\ \E n \in DOMAIN ROI : ~ValidPolygon(ROI[n])

\* C6, as stated: a Mask with a polygon that does not vary along exactly two
\* axes fails with InvalidPolygonAxes.
C6_InvalidPolygonAxes ==
    (last.op = "mask" /\ HasInvalidPolygon) => last.err = "InvalidPolygonAxes"

\* C6, amended: such a Mask fails with the ValueError of the rasteriser and
\* sets the data of no masked layer: a masked layer that existed keeps its
\* data, and one created by this Mask holds the data of its source.
C6_ValueErrorNoWrite ==
    [][(last'.op = "mask" /\ HasInvalidPolygon) =>
          /\ last'.err = "ValueError"
          /\ \A i \in DOMAIN layers : layers'[i].data = layers[i].data
          /\ \A i \in DOMAIN layers' \ DOMAIN layers :
                \E src \in DOMAIN roi_map :
                   /\ roi_map[src] = 0 /\ roi_map'[src] = i
                   /\ layers'[i].data = layers[src].data]_vars

\* a failed Mask after a Mask that had written masked data
C6_Witness ==
    /\ last.op = "mask" /\ last.err = "ValueError" /\ HasInvalidPolygon
    /\ \E n \in DOMAIN ROI : Cardinality(ConstantAxes(ROI[n])) = 0
    /\ \E src \in DOMAIN roi_map :
          roi_map[src] # 0 /\ layers[roi_map[src]].data # layers[src].data

\* C9, as stated: a Mask with an ROI of zero polygons leaves a masked volume
\* that is zero everywhere.
C9_EmptyZero ==
    (MaskSucceeded /\ ROI = <<>>) =>
        \A src \in DOMAIN roi_map :
            \A v \in DOMAIN layers[src].data : layers[roi_map[src]].data[v] = 0

\* C9, amended: a Mask with an ROI of zero polygons leaves a masked volume
\* equal to its source.
C9_EmptyIdentity ==
    (MaskSucceeded /\ ROI = <<>>) =>
        \A src \in DOMAIN roi_map :
            roi_map[src] # 0 /\ layers[roi_map[src]].data = viewer0[src].data

\* a Mask with an empty ROI has written the masked layer of every source
C9_Witness ==
    /\ MaskSucceeded /\ ROI = <<>>
    /\ \A src \in DOMAIN roi_map : roi_map[src] # 0 /\ layers[roi_map[src]].visible


----------------------------------------------------------------------------
(* The claims about clicks and Run *)

\* the last operation was a click that the handler marked handled
ClickHandled == last.op = "click" /\ last.handled

ClickedPoint == layers[last.layer].data[Len(layers[last.layer].data)]

Samples == 0..(NumSamples - 1)

\* C7: the point a click appends is one of the 100 samples of the segment
\* from near to far, its intensity is at least that of every sample and
\* greater than that of every earlier sample; when all samples have the same
\* intensity it is sample 0, the near end.
C7_FirstMaximum ==
    ClickHandled =>
        LET ray == linspace(last.near, last.far)
            intensities == map_coordinates(layers[image_layer_combo].data, ray)
        IN  /\ \E k \in Samples :
                  /\ ClickedPoint = ray[k]
                  /\ \A j \in Samples : intensities[j] <= intensities[k]
                  /\ \A j \in 0..(k - 1) : intensities[j] < intensities[k]
            /\ (\A i \in Samples : intensities[i] = intensities[0]) =>
                  ClickedPoint = [a \in 1..3 |-> last.near[a] * Unit]

\* a click on a ray of equal samples whose ends differ
C7_Witness ==
    /\ ClickHandled
    /\ last.near # last.far
    /\ LET intensities == map_coordinates(layers[image_layer_combo].data,
                                          linspace(last.near, last.far))
       IN  \A i \in Samples : intensities[i] = intensities[0]
    /\ ClickedPoint = [a \in 1..3 |-> last.near[a] * Unit]

\* a click whose maximum is inside the segment
C7_WitnessInner ==
    /\ ClickHandled
    /\ \E k \in 1..(NumSamples - 2) : ClickedPoint = linspace(last.near, last.far)[k]

C8_WitnessMiss ==
    /\ last.op = "click" /\ ~last.handled
    /\ ndisplay = 3 /\ layers[last.layer].mode = "add" /\ last.near = None
    /\ Len(layers[last.layer].data) = 1

PointsLayersOf(image) ==
    {p \in DOMAIN layers :
        layers[p].kind = "points" /\ layers[p].name = Append(layers[image].name, "points")}

\* C10: in one widget every image layer has at most one points layer named
\* after it, with the click handler registered once; a Run for an image whose
\* points layer exists sets the points of that layer to the detector output
\* and registers nothing; one click appends at most one point.
C10_OnePointsLayer ==
    /\ [](\A image \in DOMAIN layers :
             layers[image].kind = "image" =>
                /\ Cardinality(PointsLayersOf(image)) <= 1
                /\ \A p \in PointsLayersOf(image) : layers[p].callbacks = 1)
    /\ [][/\ (last'.op = "run" /\ PointsLayersOf(image_layer_combo) # {}) =>
                /\ Len(layers') = Len(layers)
                /\ \A p \in PointsLayersOf(image_layer_combo) :
                      /\ layers'[p].data = last'.points
                      /\ layers'[p].callbacks = layers[p].callbacks
          /\ last'.op = "click" =>
                Len(layers'[last'.layer].data) <= Len(layers[last'.layer].data) + 1]_vars

\* a Run after a click has replaced the points of the layer of the masked
\* image, which a Run had created
C10_Witness ==
    /\ last.op = "run"
    /\ \E image \in DOMAIN layers :
          /\ layers[image].kind = "image" /\ contains_masked(layers[image].name)
          /\ image = image_layer_combo
          /\ PointsLayersOf(image) # {}
    /\ \E p \in DOMAIN layers :
          layers[p].kind = "points" /\ Len(layers[p].data) = 2

====
